---- MODULE Spec2Model ----
(***************************************************************************)
(* Loop-state builder of brockassemble/entity.py: Entity.add_loop_state,   *)
(* the animation-controller hub wiring, the branch registry                *)
(* (Behaviors._lstate_names) and the resolution pass of                    *)
(* Behaviors.get_json.                                                     *)
(*                                                                         *)
(* Encoding of Python values:                                              *)
(*   - a string is a TLA+ string; Python's None in a string position is    *)
(*     the token None;                                                     *)
(*   - an optional list, dict or number argument is NoArg (not given) or   *)
(*     Arg(v) (given, with value v), so that an empty list stays distinct  *)
(*     from an omitted one;                                                *)
(*   - a list is a sequence; a dict is a sequence of <<key, value>> pairs  *)
(*     with unique keys, in insertion order.                               *)
(***************************************************************************)
EXTENDS Integers, Sequences, FiniteSets, TLC

\* ---- bounds of the model -------------------------------------------------
MaxStates == 3
MaxAncos == 1
MaxFailures == 1
MaxGetJson == 2
MaxSpawnGroups == 1
MaxEventParts == 2
MaxCtlStates == 3

\* AnimationFile and AnimTimelineItem objects constructed, of each class
MaxObjects == 2

\* add_anim, add_anims, add_command and add_commands calls made
MaxAdded == 2

\* ---- Python values -------------------------------------------------------
None == "None"
NoArg == << >>
Arg(v) == <<v>>
Val(a) == a[1]

\* dict[k] = v on an insertion-ordered dict
DictSet(d, k, v) ==
    IF \E i \in 1..Len(d) : d[i][1] = k
    THEN [i \in 1..Len(d) |-> IF d[i][1] = k THEN <<k, v>> ELSE d[i]]
    ELSE Append(d, <<k, v>>)

DictHas(d, k) == \E i \in 1..Len(d) : d[i][1] = k

DictGet(d, k) == d[CHOOSE i \in 1..Len(d) : d[i][1] = k][2]

RECURSIVE DictUpdate(_, _)
\* d.update(e)
DictUpdate(d, e) ==
    IF e = << >> THEN d
    ELSE DictUpdate(DictSet(d, e[1][1], e[1][2]), Tail(e))

\* x in lst
InList(x, lst) == \E i \in 1..Len(lst) : lst[i] = x

\* number of occurrences of x in lst
Count(x, lst) == Cardinality({i \in 1..Len(lst) : lst[i] = x})

\* lst[i] with Python's indexing: 0-based, negative indices count from the end
PyInRange(lst, i) == -Len(lst) <= i /\ i < Len(lst)
PyPos(lst, i) == IF i >= 0 THEN i + 1 ELSE Len(lst) + i + 1

\* what doc and prev_doc hold while get_json has returned no document
NoDoc == [returned |-> FALSE, live |-> FALSE,
          component_groups |-> << >>, events |-> << >>]

\* ---- state ---------------------------------------------------------------
VARIABLES
    _current_state,      \* Entity._current_state
    _bancos,             \* Entity._bancos: list of AnimationController
    rancos,              \* Entity.rancos: list of AnimationController
    _component_groups,   \* Behaviors._component_groups
    _events,             \* Behaviors._events
    _spawn_groups,       \* Behaviors._spawn_groups
    _spawn_properties,   \* Behaviors._spawn_properties
    _lstate_names,       \* Behaviors._lstate_names (branch registry)
    calls,               \* history: the add_loop_state calls made, with outcome
    doc,                 \* the document returned by the last get_json call
    prev_doc,            \* the document returned by the get_json call before it,
                         \* when no builder call came in between
    last_op,             \* the operation executed last
    njson,               \* number of get_json calls made
    evt,                 \* a stand-alone Event object
    evt_call,            \* history: the arguments evt was constructed with
    evt_json,            \* what evt.get_json() returned last (Arg), if called
    ctl,                 \* a stand-alone AnimationController object
    ctl_call,            \* history: constructor argument, ids added, reassignment
    tp_call,             \* the last tp(...) call: arguments and outcome
    group_call,          \* the last ComponentGroup(...) call: arguments and outcome
    heap,                \* the list objects AnimationFile and AnimTimelineItem
                         \* instances refer to, by address
    files,               \* the AnimationFile objects constructed
    items,               \* the AnimTimelineItem objects constructed
    ctor_args,           \* history: the argument each of them was constructed with
    heap_op              \* history: the last add_* call, and how many were made

vars == <<_current_state, _bancos, rancos, _component_groups, _events,
          _spawn_groups, _spawn_properties, _lstate_names, calls, doc,
          prev_doc, last_op, njson, evt, evt_call, evt_json, ctl,
          ctl_call, tp_call, group_call, heap, files, items, ctor_args,
          heap_op>>

\* the variables of the Entity and its Behaviors
entity_vars == <<_current_state, _bancos, rancos, _component_groups, _events,
                 _spawn_groups, _spawn_properties, _lstate_names, calls, doc,
                 prev_doc, last_op, njson>>

\* the variables of the stand-alone objects and calls
part_vars == <<evt, evt_call, evt_json, ctl, ctl_call, tp_call,
               group_call>>

\* the variables of the animation files and timeline items
heap_vars == <<heap, files, items, ctor_args, heap_op>>

\* ---- components and component groups --------------------------------------
Component(comp_type, value, event) ==
    [comp_type |-> comp_type, value |-> value, event |-> event]

component_skin_id(skin_id) == Component("skin_id", ToString(skin_id), None)

component_timer(length, event) == Component("timer", ToString(length), event)

\* ComponentGroup(identifier, skin_id=skin_id)
ComponentGroup(identifier, skin_id) ==
    [identifier |-> identifier,
     _components |-> <<component_skin_id(skin_id)>>]

group_add_component(group, comp) ==
    [group EXCEPT !._components = Append(@, comp)]

\* ---- events ----------------------------------------------------------------
\* EventRandomizer(weight, add_groups, remove_groups, set_properties): the
\* three optional arguments are stored as given (NoArg for None).
EventRandomizer(weight, add_groups, remove_groups, set_properties) ==
    [_weight |-> weight,
     _add_groups |-> add_groups,
     _remove_groups |-> remove_groups,
     _set_properties |-> set_properties]

\* EventRandomizer.get_json: 'weight' always, the others when not None.
\* {"component_groups": L} under 'add' / 'remove' is written as L.
EventRandomizer_get_json(r) ==
    <<<<"weight", r._weight>>>>
    \o (IF r._add_groups # NoArg
        THEN <<<<"add", Val(r._add_groups)>>>> ELSE << >>)
    \o (IF r._remove_groups # NoArg
        THEN <<<<"remove", Val(r._remove_groups)>>>> ELSE << >>)
    \o (IF r._set_properties # NoArg
        THEN <<<<"set_property", Val(r._set_properties)>>>> ELSE << >>)

\* Event.add_set_property(prop_id, value) for a value that is not a str
\* (a str value would be wrapped in single quotes first)
add_set_property(e, prop_id, value) ==
    [e EXCEPT !._set_properties = DictSet(@, "property:" \o prop_id, value)]

RECURSIVE add_set_properties(_, _)
\* for s in set_properties: self.add_set_property(*s)
add_set_properties(e, set_properties) ==
    IF set_properties = << >> THEN e
    ELSE add_set_properties(
             add_set_property(e, Head(set_properties)[1],
                              Head(set_properties)[2]),
             Tail(set_properties))

\* Event.__init__. A list argument that is None and one that is empty leave
\* the same object, so both are written << >>. next_event is accepted and
\* never stored: _next_event is set to None and no statement assigns it.
\* remove_groups is the public attribute of that name: the constructor does
\* not create it (it fills _remove_groups), so it starts absent (NoArg).
Event_init(identifier, namespace, add_groups, remove_groups, randomizers, sequential_events, set_properties, next_event) ==
    add_set_properties(
        [identifier |-> identifier,
         namespace |-> namespace,
         _add_groups |-> add_groups,
         _remove_groups |-> remove_groups,
         _randomizers |-> randomizers,
         _sequential_events |-> sequential_events,
         _set_properties |-> << >>,
         _next_event |-> None,
         remove_groups |-> NoArg],
        set_properties)

\* Event(identifier, namespace, add_groups=..., remove_groups=...)
Event(identifier, namespace, add_groups, remove_groups) ==
    Event_init(identifier, namespace, add_groups, remove_groups,
               << >>, << >>, << >>, None)

Event_get_id(e) ==
    IF e.namespace # None THEN e.namespace \o ":" \o e.identifier
    ELSE e.identifier

\* the add / remove / set_property parts of an event, each present only
\* when its list or dict is not empty, in that order
Event_parts(e) ==
    (IF Len(e._add_groups) > 0
     THEN <<<<"add", e._add_groups>>>> ELSE << >>)
    \o (IF Len(e._remove_groups) > 0
        THEN <<<<"remove", e._remove_groups>>>> ELSE << >>)
    \o (IF Len(e._set_properties) > 0
        THEN <<<<"set_property", e._set_properties>>>> ELSE << >>)

Event_primary_randomize_first(e) ==
    IF Len(e._randomizers) > 0
    THEN <<<<"sequence",
             << <<<<"randomize",
                    [i \in 1..Len(e._randomizers) |->
                        EventRandomizer_get_json(e._randomizers[i])]>>>> >>
             \o [i \in 1..Len(Event_parts(e)) |-> <<Event_parts(e)[i]>>]
           >>>>
    ELSE Event_parts(e)

\* the object get_json builds before it looks at the sequential events:
\* with randomizers {"sequence": [one object per part, {"randomize": [...]}]},
\* without them the parts as top-level keys
Event_primary(e) ==
    IF Len(e._randomizers) > 0
    THEN <<<<"sequence",
             [i \in 1..Len(Event_parts(e)) |-> <<Event_parts(e)[i]>>]
             \o << <<<<"randomize",
                       [i \in 1..Len(e._randomizers) |->
                           EventRandomizer_get_json(e._randomizers[i])]>>>> >>
           >>>>
    ELSE Event_parts(e)

RECURSIVE Event_get_json(_)
\* Event.get_json: a JSON object is the sequence of its <<key, value>> pairs.
\* {"component_groups": L} under 'add' / 'remove' is written as L.
Event_get_json(e) ==
    LET obj0 == Event_primary(e)
        obj1 == IF Len(e._sequential_events) > 0
                THEN <<<<"sequence",
                         <<obj0>> \o
                         [i \in 1..Len(e._sequential_events) |->
                             Event_get_json(e._sequential_events[i])]>>>>
                ELSE obj0
    IN IF e._next_event # None
       THEN DictSet(obj1, "trigger",
                    <<<<"event", e._next_event>>, <<"target", "self">>>>)
       ELSE obj1

\* ---- animation controllers ---------------------------------------------------
AncoState(identifier) ==
    [identifier |-> identifier,
     _transitions |-> << >>,
     _on_entry |-> << >>,
     _on_exit |-> << >>,
     _animations |-> << >>,
     _transition_time |-> None]

add_transition(state, state_id, condition_string) ==
    [state EXCEPT !._transitions = Append(@, <<state_id, condition_string>>)]

AnimationController(identifier, initial_state) ==
    [identifier |-> identifier,
     initial_state |-> initial_state,
     _states |-> << >>]

add_state(anco, state) == [anco EXCEPT !._states = Append(@, state)]

has_state_first_only(anco, state_name) ==
    Len(anco._states) > 0 /\ anco._states[1].identifier = state_name

has_state(anco, state_name) ==
    \E i \in 1..Len(anco._states) : anco._states[i].identifier = state_name

\* position of the state get_state returns: the first one with that id,
\* 0 for Python's None
get_state(anco, state_name) ==
    IF \E i \in 1..Len(anco._states) : anco._states[i].identifier = state_name
    THEN CHOOSE i \in 1..Len(anco._states) :
            /\ anco._states[i].identifier = state_name
            /\ \A j \in 1..(i-1) : anco._states[j].identifier # state_name
    ELSE 0

\* AnimationController(identifier) / AnimationController(identifier,
\* initial_state=x): the signature's default is 'init'
AnimationController_init(identifier, initial_state) ==
    AnimationController(identifier,
        IF initial_state = NoArg THEN "init" ELSE Val(initial_state))

RECURSIVE add_states(_, _)
\* for s in states: self.add_state(s)
add_states(anco, states) ==
    IF states = << >> THEN anco
    ELSE add_states(add_state(anco, Head(states)), Tail(states))

\* AncoState.get_json
AncoState_get_json(state) ==
    (IF Len(state._transitions) > 0
     THEN <<<<"transitions",
              [i \in 1..Len(state._transitions) |->
                  <<<<state._transitions[i][1], state._transitions[i][2]>>>>]
            >>>>
     ELSE << >>)
    \o (IF Len(state._on_entry) > 0
        THEN <<<<"on_entry", state._on_entry>>>> ELSE << >>)
    \o (IF Len(state._on_exit) > 0
        THEN <<<<"on_exit", state._on_exit>>>> ELSE << >>)
    \o (IF Len(state._animations) > 0
        THEN <<<<"animations", state._animations>>>> ELSE << >>)
    \o (IF state._transition_time # None
        THEN <<<<"blend_transition", state._transition_time>>>> ELSE << >>)

RECURSIVE banco_states(_, _)
\* for i in self._states: banco_states[i.identifier] = i.get_json()
banco_states(obj, states) ==
    IF states = << >> THEN obj
    ELSE banco_states(
             DictSet(obj, Head(states).identifier,
                     AncoState_get_json(Head(states))),
             Tail(states))

\* AnimationController.get_json (string_variables is None)
AnimationController_get_json(anco) ==
    <<<<"format_version", "1.10.0">>,
      <<"animation_controllers",
        <<<<anco.identifier,
            <<<<"initial_state", anco.initial_state>>,
              <<"states", banco_states(<< >>, anco._states)>>>>
          >>>>
      >>
    >>

\* ---- loop-state ids -----------------------------------------------------------
current_lstate_first == "state_0"

current_lstate == "state_" \o ToString(_current_state)

next_lstate == "state_" \o ToString(_current_state + 1)

prev_lstate_same == "state_" \o ToString(_current_state)

prev_lstate == "state_" \o ToString(_current_state - 1)

\* ---- Entity: controllers -----------------------------------------------------
\* self._bancos[banco_idx] / self.rancos[ranco_idx] raises IndexError
IndexError_never(ancos, idx) == FALSE

IndexError(ancos, idx) == ~PyInRange(ancos, idx)

\* Entity.add_banco_state on the banco list bancos (idx in range)
add_banco_state(bancos, banco_idx, state) ==
    [bancos EXCEPT ![PyPos(bancos, banco_idx)] = add_state(@, state)]

\* Entity.add_ranco_state on the ranco list rancs (idx in range)
add_ranco_state(rancs, ranco_idx, state) ==
    [rancs EXCEPT ![PyPos(rancs, ranco_idx)] = add_state(@, state)]

\* The hub wiring of add_loop_state, after the loop state's AncoState was
\* added to ancos[idx]: initial_state = 'init', create 'init' when missing,
\* init.add_transition(current_lstate, 'query.skin_id==<n>').
wire_init(ancos, idx) ==
    LET p == PyPos(ancos, idx)
        a1 == [ancos EXCEPT ![p].initial_state = "init"]
        a2 == IF ~has_state(a1[p], "init")
              THEN [a1 EXCEPT ![p] = add_state(@, AncoState("init"))]
              ELSE a1
        i == get_state(a2[p], "init")
    IN [a2 EXCEPT ![p]._states[i] =
            add_transition(@, current_lstate,
                           "query.skin_id==" \o ToString(_current_state))]

banco_state_same(entry_commands, exit_commands) ==
    LET s0 == add_transition(AncoState(current_lstate), "init",
                             "query.skin_id==" \o ToString(_current_state))
        s1 == IF entry_commands # NoArg
              THEN [s0 EXCEPT !._on_entry = @ \o Val(entry_commands)] ELSE s0
    IN IF exit_commands # NoArg
       THEN [s1 EXCEPT !._on_exit = @ \o Val(exit_commands)] ELSE s1

\* the AncoState add_loop_state builds for the behavior controller
banco_state(entry_commands, exit_commands) ==
    LET s0 == add_transition(AncoState(current_lstate), "init",
                             "query.skin_id!=" \o ToString(_current_state))
        s1 == IF entry_commands # NoArg
              THEN [s0 EXCEPT !._on_entry = @ \o Val(entry_commands)] ELSE s0
    IN IF exit_commands # NoArg
       THEN [s1 EXCEPT !._on_exit = @ \o Val(exit_commands)] ELSE s1

\* the AncoState add_loop_state builds for the render controller
\* (anim_blend_time left at its default 0.2)
ranco_state(animation, end_anim_with_state) ==
    LET s0 == IF end_anim_with_state
              THEN add_transition(AncoState(current_lstate), "init",
                                  "query.skin_id!=" \o ToString(_current_state))
              ELSE add_transition(AncoState(current_lstate), "init",
                                  "query.all_animations_finished")
    IN [s0 EXCEPT !._animations = Append(@, animation),
                  !._transition_time = "0.2"]

\* Entity.create_banco(banco_name, initial_state): create_banco hands its own
\* initial_state argument (default None) to AnimationController.
create_banco(banco_name, initial_state) ==
    /\ Len(_bancos) < MaxAncos
    /\ _bancos' = Append(_bancos,
          AnimationController("controller.animation.mob_" \o banco_name,
                              initial_state))
    /\ last_op' = "create_banco"
    /\ prev_doc' = NoDoc
    /\ UNCHANGED njson
    /\ UNCHANGED <<part_vars, heap_vars>>
    /\ UNCHANGED <<_current_state, rancos, _component_groups, _events,
                   _spawn_groups, _spawn_properties, _lstate_names, calls,
                   doc>>

\* Entity.create_ranco(ranco_name, initial_state)
create_ranco(ranco_name, initial_state) ==
    /\ Len(rancos) < MaxAncos
    /\ rancos' = Append(rancos,
          AnimationController("controller.animation.mob_" \o ranco_name,
                              initial_state))
    /\ last_op' = "create_ranco"
    /\ prev_doc' = NoDoc
    /\ UNCHANGED njson
    /\ UNCHANGED <<part_vars, heap_vars>>
    /\ UNCHANGED <<_current_state, _bancos, _component_groups, _events,
                   _spawn_groups, _spawn_properties, _lstate_names, calls,
                   doc>>

\* Entity.add_spawn_group(group)
add_spawn_group(group) ==
    /\ Len(_spawn_groups) < MaxSpawnGroups
    /\ _spawn_groups' = Append(_spawn_groups, group)
    /\ last_op' = "add_spawn_group"
    /\ prev_doc' = NoDoc
    /\ UNCHANGED njson
    /\ UNCHANGED <<part_vars, heap_vars>>
    /\ UNCHANGED <<_current_state, _bancos, rancos, _component_groups,
                   _events, _spawn_properties, _lstate_names, calls, doc>>

\* ---- Entity.add_loop_state ------------------------------------------------------
timer_target_sequential(last_state, timer_state) ==
    IF ~last_state THEN next_lstate ELSE "state_0"

\* the timer's time_down_event target (timer_len given)
timer_target(last_state, timer_state) ==
    IF timer_state # None THEN timer_state
    ELSE IF ~last_state THEN next_lstate
    ELSE "state_0"

\* the component group of the new loop state
loop_group(timer_len, last_state, timer_state) ==
    IF timer_len # NoArg
    THEN group_add_component(
             ComponentGroup(current_lstate, _current_state),
             component_timer(Val(timer_len),
                             timer_target(last_state, timer_state)))
    ELSE ComponentGroup(current_lstate, _current_state)

timer_connection_list_given(timer_len, connection_list, timer_state) ==
    IF timer_len # NoArg /\ timer_state # None /\ connection_list # NoArg
    THEN Arg(Append(Val(connection_list), timer_state))
    ELSE connection_list

\* connection_list after the timer block: timer_state is appended to the
\* caller's list, or becomes a new one-element list
timer_connection_list(timer_len, connection_list, timer_state) ==
    IF timer_len # NoArg /\ timer_state # None
    THEN IF connection_list = NoArg THEN Arg(<<timer_state>>)
         ELSE Arg(Append(Val(connection_list), timer_state))
    ELSE connection_list

spawn_defaults_every_state(set_properties) ==
    IF set_properties # NoArg
    THEN DictUpdate(_spawn_properties, Val(set_properties))
    ELSE _spawn_properties

\* if self._current_state == 0 and set_properties is not None:
\*     self._spawn_properties.update(set_properties)
spawn_defaults(set_properties) ==
    IF _current_state = 0 /\ set_properties # NoArg
    THEN DictUpdate(_spawn_properties, Val(set_properties))
    ELSE _spawn_properties

\* the event of the new loop state
loop_event(set_properties) ==
    LET e == Event(current_lstate, None, <<current_lstate>>, <<prev_lstate>>)
    IN IF set_properties # NoArg
       THEN [e EXCEPT !._set_properties = Val(set_properties)] ELSE e

\* if last_state: for i in events: if i.identifier == 'state_0':
\*     i.remove_groups = [current_lstate]
close_loop(events) ==
    [i \in 1..Len(events) |->
        IF events[i].identifier = "state_0"
        THEN [events[i] EXCEPT !.remove_groups = Arg(<<current_lstate>>)]
        ELSE events[i]]

\* if name is not None: set element 0 of the entry, or create [current_lstate]
register_name(names, name) ==
    IF DictHas(names, name)
    THEN DictSet(names, name,
                 [DictGet(names, name) EXCEPT ![1] = current_lstate])
    ELSE DictSet(names, name, <<current_lstate>>)

use_banco_always(entry_commands, exit_commands) == TRUE

\* if entry_commands is not None or exit_commands is not None:
use_banco(entry_commands, exit_commands) ==
    entry_commands # NoArg \/ exit_commands # NoArg

\* if animation is not None:
use_ranco(animation) == animation # None

RECURSIVE register_connections(_, _)
\* for i in connection_list: create [None] when missing, append current_lstate
register_connections(names, connection_list) ==
    IF connection_list = << >> THEN names
    ELSE LET i == Head(connection_list)
             n1 == IF ~DictHas(names, i) THEN DictSet(names, i, <<None>>)
                   ELSE names
             n2 == DictSet(n1, i, Append(DictGet(n1, i), current_lstate))
         IN register_connections(n2, Tail(connection_list))

add_loop_state(banco_id, ranco_id, entry_commands, exit_commands, timer_len, last_state, name, connection_list, timer_state, animation, end_anim_with_state, set_properties) ==
    LET conn == timer_connection_list(timer_len, connection_list, timer_state)
        groups1 == Append(_component_groups,
                          loop_group(timer_len, last_state, timer_state))
        banco_raises == use_banco(entry_commands, exit_commands)
                        /\ IndexError(_bancos, banco_id)
        bancos1 == IF use_banco(entry_commands, exit_commands)
                      /\ PyInRange(_bancos, banco_id)
                   THEN wire_init(
                            add_banco_state(_bancos, banco_id,
                                banco_state(entry_commands, exit_commands)),
                            banco_id)
                   ELSE _bancos
        ranco_raises == ~banco_raises /\ use_ranco(animation)
                        /\ IndexError(rancos, ranco_id)
        rancos1 == IF ~banco_raises /\ use_ranco(animation)
                      /\ PyInRange(rancos, ranco_id)
                   THEN wire_init(
                            add_ranco_state(rancos, ranco_id,
                                ranco_state(animation, end_anim_with_state)),
                            ranco_id)
                   ELSE rancos
        raises == banco_raises \/ ranco_raises
        events1 == Append(_events, loop_event(set_properties))
        events2 == IF last_state THEN close_loop(events1) ELSE events1
        names1 == IF name # None THEN register_name(_lstate_names, name)
                  ELSE _lstate_names
        names2 == IF conn # NoArg THEN register_connections(names1, Val(conn))
                  ELSE names1
        call == [k |-> _current_state,
                 banco_id |-> banco_id, ranco_id |-> ranco_id,
                 entry_commands |-> entry_commands,
                 exit_commands |-> exit_commands,
                 timer_len |-> timer_len, last_state |-> last_state,
                 name |-> name, connection_list |-> connection_list,
                 timer_state |-> timer_state, animation |-> animation,
                 end_anim_with_state |-> end_anim_with_state,
                 set_properties |-> set_properties,
                 connection_list_after |->
                     IF connection_list = NoArg THEN NoArg ELSE conn,
                 nbancos |-> Len(_bancos), nrancos |-> Len(rancos),
                 wired_banco |-> bancos1 # _bancos,
                 wired_ranco |-> rancos1 # rancos,
                 result |-> IF raises THEN "IndexError" ELSE "ok"]
    IN /\ _component_groups' = groups1
       /\ _bancos' = bancos1
       /\ rancos' = rancos1
       /\ IF raises
          THEN UNCHANGED <<_spawn_properties, _events, _lstate_names,
                           _current_state>>
          ELSE /\ _spawn_properties' = spawn_defaults(set_properties)
               /\ _events' = events2
               /\ _lstate_names' = names2
               /\ _current_state' = _current_state + 1
       /\ calls' = Append(calls, call)
       /\ last_op' = "add_loop_state"
       /\ prev_doc' = NoDoc
       /\ UNCHANGED njson
       /\ UNCHANGED <<part_vars, heap_vars>>
       /\ UNCHANGED <<_spawn_groups, doc>>

\* ---- Behaviors.get_json -----------------------------------------------------------
\* Behaviors.get_event: position of the first event whose get_id() is
\* event_id, 0 for Python's None
get_event(events, event_id) ==
    IF \E i \in 1..Len(events) : Event_get_id(events[i]) = event_id
    THEN CHOOSE i \in 1..Len(events) :
             /\ Event_get_id(events[i]) = event_id
             /\ \A j \in 1..(i-1) : Event_get_id(events[j]) # event_id
    ELSE 0

\* "Create vanilla spawn event" (no operation of the model fills
\* _spawn_randomizers or _spawn_sequential_events: both stay empty)
spawn_block(events) ==
    IF Len(_spawn_groups) > 0 \/ Len(_spawn_properties) > 0
    THEN LET e1 == IF get_event(events, "minecraft:entity_spawned") = 0
                   THEN Append(events,
                               Event("entity_spawned", "minecraft", << >>, << >>))
                   ELSE events
             p == get_event(e1, "minecraft:entity_spawned")
         IN [e1 EXCEPT ![p]._add_groups = @ \o _spawn_groups,
                       ![p]._set_properties = _spawn_properties]
    ELSE events

RECURSIVE add_sources_always(_, _, _)
add_sources_always(event, v, i) ==
    IF i > Len(v) THEN event
    ELSE add_sources_always(
             [event EXCEPT !._remove_groups = Append(@, v[i])], v, i + 1)

RECURSIVE add_sources(_, _, _)
\* for i in range(1, len(v)): if v[i] not in event._remove_groups:
\*     event.add_remove_group(v[i])            (i is the 1-based position)
add_sources(event, v, i) ==
    IF i > Len(v) THEN event
    ELSE add_sources(
             IF ~InList(v[i], event._remove_groups)
             THEN [event EXCEPT !._remove_groups = Append(@, v[i])]
             ELSE event,
             v, i + 1)

RECURSIVE resolve_branches(_, _)
\* "Remove component groups from branching connections"
resolve_branches(events, names) ==
    IF names = << >> THEN events
    ELSE LET v == names[1][2]
             p == get_event(events, v[1])
         IN resolve_branches(
                IF p # 0 THEN [events EXCEPT ![p] = add_sources(@, v, 2)]
                ELSE events,
                Tail(names))

\* ComponentGroup.get_json: components keyed by their type
RECURSIVE group_json(_)
group_json(components) ==
    IF components = << >> THEN << >>
    ELSE LET n == Len(components)
         IN DictSet(group_json(SubSeq(components, 1, n - 1)),
                    "minecraft:" \o components[n].comp_type, components[n])

RECURSIVE groups_json(_)
\* component_groups[g.get_id()] = g.get_json()
groups_json(groups) ==
    IF groups = << >> THEN << >>
    ELSE LET n == Len(groups)
         IN DictSet(groups_json(SubSeq(groups, 1, n - 1)),
                    groups[n].identifier, group_json(groups[n]._components))

RECURSIVE events_json(_)
\* events[e.get_id()] = e.get_json()
events_json(events) ==
    IF events = << >> THEN << >>
    ELSE LET n == Len(events)
         IN DictSet(events_json(SubSeq(events, 1, n - 1)),
                    Event_get_id(events[n]), Event_get_json(events[n]))

RECURSIVE str_replace(_, _, _)
\* s.replace(k, t): every occurrence of k in s, found from left to right
\* without overlap, becomes t (k is not empty).  The names replaced hold no
\* quote, colon, comma, brace or blank, so replacing in the dumped text and
\* replacing in each key and string of the document coincide.
str_replace(s, k, t) ==
    IF Len(s) < Len(k) THEN s
    ELSE IF SubSeq(s, 1, Len(k)) = k
         THEN t \o str_replace(SubSeq(s, Len(k) + 1, Len(s)), k, t)
         ELSE SubSeq(s, 1, 1) \o str_replace(SubSeq(s, 2, Len(s)), k, t)

RECURSIVE resolve_str(_, _)
\* for k, v in _lstate_names.items(): if v[0] is not None: s = s.replace(k, v[0])
resolve_str(s, names) ==
    IF names = << >> THEN s
    ELSE resolve_str(
             IF names[1][2][1] # None
             THEN str_replace(s, names[1][1], names[1][2][1]) ELSE s,
             Tail(names))

resolve_list(lst, names) == [i \in 1..Len(lst) |-> resolve_str(lst[i], names)]

RECURSIVE resolve_keys(_, _)
\* json.loads of a dict whose keys were replaced: the last value of a key
\* wins, at the position of the key's first occurrence
resolve_keys(d, names) ==
    IF d = << >> THEN << >>
    ELSE LET n == Len(d)
         IN DictSet(resolve_keys(SubSeq(d, 1, n - 1), names),
                    resolve_str(d[n][1], names), d[n][2])

\* json.dumps, the replacements, json.loads on the modelled part of the
\* document
resolve_names(obj, names) ==
    LET Comp(c) == [c EXCEPT !.event = resolve_str(@, names)]
        Group(g) == resolve_keys([i \in 1..Len(g) |-> <<g[i][1], Comp(g[i][2])>>],
                                 names)
        Part(key, x) == IF key = "set_property" THEN resolve_keys(x, names)
                        ELSE resolve_list(x, names)
        Ev(e) == resolve_keys(
                     [i \in 1..Len(e) |-> <<e[i][1], Part(e[i][1], e[i][2])>>],
                     names)
        Groups(d) == [i \in 1..Len(d) |-> <<d[i][1], Group(d[i][2])>>]
        Events(d) == [i \in 1..Len(d) |-> <<d[i][1], Ev(d[i][2])>>]
    IN [returned |-> TRUE,
        live |-> FALSE,
        component_groups |-> resolve_keys(Groups(obj.component_groups), names),
        events |-> resolve_keys(Events(obj.events), names)]

\* A document returned without the json round trip holds the events' own
\* add and remove lists, not copies: what it shows after events changed.
refresh_doc(d, events) ==
    LET Obj(id) == events[CHOOSE i \in 1..Len(events) :
                        /\ Event_get_id(events[i]) = id
                        /\ \A j \in (i+1)..Len(events) :
                               Event_get_id(events[j]) # id]
        Ev(id, e) == [i \in 1..Len(e) |->
                        IF e[i][1] = "add" THEN <<"add", Obj(id)._add_groups>>
                        ELSE IF e[i][1] = "remove"
                             THEN <<"remove", Obj(id)._remove_groups>>
                             ELSE e[i]]
    IN IF d.live
       THEN [d EXCEPT !.events =
                [i \in 1..Len(d.events) |->
                    <<d.events[i][1], Ev(d.events[i][1], d.events[i][2])>>]]
       ELSE d

\* Behaviors.get_json (string_variables is None); the modelled part of the
\* returned document is minecraft:entity.component_groups and .events
get_json ==
    /\ njson < MaxGetJson
    /\ LET e1 == spawn_block(_events)
           e2 == IF Len(_lstate_names) > 0
                 THEN resolve_branches(e1, _lstate_names) ELSE e1
           obj == [returned |-> TRUE,
                   live |-> TRUE,
                   component_groups |-> groups_json(_component_groups),
                   events |-> events_json(e2)]
       IN /\ _events' = e2
          /\ doc' = IF Len(_lstate_names) > 0
                    THEN resolve_names(obj, _lstate_names) ELSE obj
          /\ prev_doc' = IF last_op = "get_json" THEN refresh_doc(doc, e2)
                         ELSE NoDoc
    /\ njson' = njson + 1
    /\ last_op' = "get_json"
    /\ UNCHANGED <<part_vars, heap_vars>>
    /\ UNCHANGED <<_current_state, _bancos, rancos, _component_groups,
                   _spawn_groups, _spawn_properties, _lstate_names, calls>>

\* ---- a stand-alone Event ------------------------------------------------------
\* the randomizers and sub-events handed to events
Randomizers ==
    {EventRandomizer(1, NoArg, NoArg, NoArg),
     EventRandomizer(9001, Arg(<<"tag_1">>), NoArg, NoArg)}

SubEvents ==
    {Event("seq", None, <<"tag_1">>, << >>),
     Event_init("seq_rnd", None, << >>, <<"tag_2">>,
                <<EventRandomizer(1, NoArg, NoArg, NoArg)>>, << >>, << >>,
                None)}

\* constructor arguments of Event('test_event', ...)
EventArgs ==
    [add_groups : {<< >>, <<"component_group_id">>},
     remove_groups : {<< >>, <<"old_group_id">>},
     randomizers : {<< >>} \cup {<<r>> : r \in Randomizers},
     sequential_events : {<< >>} \cup {<<e>> : e \in SubEvents},
     set_properties : {<< >>, <<<<"prop_id", 5>>>>},
     next_event : {None, "next_event"}]

\* event = Event('test_event', add_groups=..., ..., next_event=...)
new_event(a) ==
    /\ evt' = Event_init("test_event", None, a.add_groups, a.remove_groups,
                         a.randomizers, a.sequential_events,
                         a.set_properties, a.next_event)
    /\ evt_call' = [next_event |-> a.next_event]
    /\ evt_json' = NoArg
    /\ UNCHANGED <<ctl, ctl_call, tp_call, group_call>>
    /\ UNCHANGED <<entity_vars, heap_vars>>

\* event.add_add_group(group)
add_add_group(group) ==
    /\ Len(evt._add_groups) < MaxEventParts
    /\ evt' = [evt EXCEPT !._add_groups = Append(@, group)]
    /\ evt_json' = NoArg
    /\ UNCHANGED <<evt_call, ctl, ctl_call, tp_call, group_call>>
    /\ UNCHANGED <<entity_vars, heap_vars>>

\* event.add_remove_group(group)
add_remove_group(group) ==
    /\ Len(evt._remove_groups) < MaxEventParts
    /\ evt' = [evt EXCEPT !._remove_groups = Append(@, group)]
    /\ evt_json' = NoArg
    /\ UNCHANGED <<evt_call, ctl, ctl_call, tp_call, group_call>>
    /\ UNCHANGED <<entity_vars, heap_vars>>

\* event.add_randomizer(r)
add_randomizer(r) ==
    /\ Len(evt._randomizers) < MaxEventParts
    /\ evt' = [evt EXCEPT !._randomizers = Append(@, r)]
    /\ evt_json' = NoArg
    /\ UNCHANGED <<evt_call, ctl, ctl_call, tp_call, group_call>>
    /\ UNCHANGED <<entity_vars, heap_vars>>

\* event.add_sequential_event(r)
add_sequential_event(r) ==
    /\ Len(evt._sequential_events) < MaxEventParts
    /\ evt' = [evt EXCEPT !._sequential_events = Append(@, r)]
    /\ evt_json' = NoArg
    /\ UNCHANGED <<evt_call, ctl, ctl_call, tp_call, group_call>>
    /\ UNCHANGED <<entity_vars, heap_vars>>

\* event.get_json()
event_get_json ==
    /\ evt_json' = Arg(Event_get_json(evt))
    /\ UNCHANGED <<evt, evt_call, ctl, ctl_call, tp_call, group_call>>
    /\ UNCHANGED <<entity_vars, heap_vars>>

\* ---- a stand-alone AnimationController ------------------------------------------
StateIds == {"test_state", "idle", "init"}

\* anco = AnimationController('test_anco') or
\* anco = AnimationController('test_anco', initial_state=x)
new_anco(initial_state) ==
    /\ ctl' = AnimationController_init("test_anco", initial_state)
    /\ ctl_call' = [initial_state |-> initial_state, added |-> << >>,
                    reassigned |-> FALSE]
    /\ UNCHANGED <<evt, evt_call, evt_json, tp_call, group_call>>
    /\ UNCHANGED <<entity_vars, heap_vars>>

\* anco.add_state(AncoState(state_id))
anco_add_state(state_id) ==
    /\ Len(ctl._states) < MaxCtlStates
    /\ ctl' = add_state(ctl, AncoState(state_id))
    /\ ctl_call' = [ctl_call EXCEPT !.added = Append(@, state_id)]
    /\ UNCHANGED <<evt, evt_call, evt_json, tp_call, group_call>>
    /\ UNCHANGED <<entity_vars, heap_vars>>

\* anco.add_states([AncoState(id1), AncoState(id2)])
anco_add_states(id1, id2) ==
    /\ Len(ctl._states) + 2 <= MaxCtlStates
    /\ ctl' = add_states(ctl, <<AncoState(id1), AncoState(id2)>>)
    /\ ctl_call' = [ctl_call EXCEPT !.added = @ \o <<id1, id2>>]
    /\ UNCHANGED <<evt, evt_call, evt_json, tp_call, group_call>>
    /\ UNCHANGED <<entity_vars, heap_vars>>

\* anco.initial_state = state_id (the attribute is public)
set_initial_state(state_id) ==
    /\ ctl' = [ctl EXCEPT !.initial_state = state_id]
    /\ ctl_call' = [ctl_call EXCEPT !.reassigned = TRUE]
    /\ UNCHANGED <<evt, evt_call, evt_json, tp_call, group_call>>
    /\ UNCHANGED <<entity_vars, heap_vars>>

\* ---- command.tp and ComponentGroup(...) -------------------------------------------
\* Python values whose text differs by type: None, an int, a str
PyNone == <<"None">>
PyInt(n) == <<"int", n>>
PyStr(t) == <<"str", t>>

\* str(v), as an f-string field formats v
format(v) ==
    IF v[1] = "int" THEN ToString(v[2])
    ELSE IF v[1] = "str" THEN v[2]
    ELSE "None"

\* _command_stem(cmd, include_slash=include_slash), selector None
_command_stem(cmd, include_slash) ==
    (IF include_slash THEN "/" ELSE "") \o cmd

\* what tp returns; the rotation and facing arguments are left at None.
\* The position is appended as f' {x} {y}{ z}': the braces of the third
\* field hold the blank, so y and z are written without a separator.
tp_command(victim_selector, x, y, z, target_selector, check_for_blocks, include_slash) ==
    _command_stem("tp", include_slash)
    \o (IF victim_selector # None THEN " " \o victim_selector ELSE "")
    \o (IF target_selector # None THEN " " \o target_selector
        ELSE " " \o format(x) \o " " \o format(y) \o format(z))
    \o (IF check_for_blocks THEN " true" ELSE "")

\* tp(...): no statement of tp raises, every call returns the string
tp(victim_selector, x, y, z, target_selector, check_for_blocks, include_slash) ==
    /\ tp_call' = [made |-> TRUE,
                   victim_selector |-> victim_selector,
                   x |-> x, y |-> y, z |-> z,
                   target_selector |-> target_selector,
                   check_for_blocks |-> check_for_blocks,
                   include_slash |-> include_slash,
                   result |-> "ok",
                   value |-> tp_command(victim_selector, x, y, z,
                                        target_selector, check_for_blocks,
                                        include_slash)]
    /\ UNCHANGED <<evt, evt_call, evt_json, ctl, ctl_call, group_call>>
    /\ UNCHANGED <<entity_vars, heap_vars>>

\* ComponentGroup.__init__(identifier, skin_id=, timer_len=, timer_event=):
\* the group built, and the line printed when only one of timer_len and
\* timer_event is given
ComponentGroup_init(identifier, skin_id, timer_len, timer_event) ==
    LET g0 == [identifier |-> identifier, _components |-> << >>]
        g1 == IF skin_id # NoArg
              THEN group_add_component(g0, component_skin_id(Val(skin_id)))
              ELSE g0
    IN IF timer_len # NoArg /\ timer_event # None
       THEN [group |-> group_add_component(
                           g1, component_timer(Val(timer_len), timer_event)),
             printed |-> None]
       ELSE IF timer_len # NoArg
       THEN [group |-> g1,
             printed |-> "ERROR: Component group " \o identifier
                         \o ": Timer length given without event"]
       ELSE IF timer_event # None
       THEN [group |-> g1,
             printed |-> "ERROR: Component group " \o identifier
                         \o ": Timer event given without length"]
       ELSE [group |-> g1, printed |-> None]

\* group = ComponentGroup('test_group', ...): the constructor has no raise
\* statement, every call returns the group
new_group(skin_id, timer_len, timer_event) ==
    /\ group_call' =
           [made |-> TRUE, skin_id |-> skin_id, timer_len |-> timer_len,
            timer_event |-> timer_event, result |-> "ok",
            group |-> ComponentGroup_init("test_group", skin_id, timer_len,
                                          timer_event).group,
            printed |-> ComponentGroup_init("test_group", skin_id, timer_len,
                                            timer_event).printed]
    /\ UNCHANGED <<evt, evt_call, evt_json, ctl, ctl_call, tp_call>>
    /\ UNCHANGED <<entity_vars, heap_vars>>

\* ---- AnimationFile and AnimTimelineItem ---------------------------------------------
\* Python evaluates a default argument once, when the def statement runs:
\* the [] of AnimationFile.__init__(animations=[]) is one list object, kept
\* at this address of the heap, and the [] of
\* AnimTimelineItem.__init__(commands=[]) is another
AnimationFile_defaults == 1

AnimTimelineItem_defaults == 2

\* Animation(identifier, looping)
Animation(identifier, looping) ==
    [identifier |-> identifier, looping |-> looping]

\* Animation.get_json for an animation without length and timeline items
Animation_get_json(anim) ==
    IF anim.looping THEN <<<<"loop", TRUE>>>> ELSE << >>

\* self.animations = animations: the object keeps the reference it was
\* given, which without an argument is the default list itself
AnimationFile_init(animations) ==
    /\ Len(files) < MaxObjects
    /\ IF animations = NoArg
       THEN /\ files' = Append(files, [format_version |-> "1.8.0",
                                       animations |-> AnimationFile_defaults])
            /\ heap' = heap
       ELSE /\ files' = Append(files, [format_version |-> "1.8.0",
                                       animations |-> Len(heap) + 1])
            /\ heap' = Append(heap, Val(animations))
    /\ ctor_args' = [ctor_args EXCEPT !.AnimationFile = Append(@, animations)]
    /\ UNCHANGED <<items, heap_op>>
    /\ UNCHANGED <<entity_vars, part_vars>>

\* self.animations.append(anim)
add_anim(self, anim) ==
    /\ self \in 1..Len(files)
    /\ heap_op.count < MaxAdded
    /\ heap' = [heap EXCEPT ![files[self].animations] = Append(@, anim)]
    /\ heap_op' = [op |-> "add_anim", cls |-> "AnimationFile",
                   target |-> self, count |-> heap_op.count + 1]
    /\ UNCHANGED <<files, items, ctor_args>>
    /\ UNCHANGED <<entity_vars, part_vars>>

\* self.animations.extend(anims)
add_anims(self, anims) ==
    /\ self \in 1..Len(files)
    /\ heap_op.count < MaxAdded
    /\ heap' = [heap EXCEPT ![files[self].animations] = @ \o anims]
    /\ heap_op' = [op |-> "add_anims", cls |-> "AnimationFile",
                   target |-> self, count |-> heap_op.count + 1]
    /\ UNCHANGED <<files, items, ctor_args>>
    /\ UNCHANGED <<entity_vars, part_vars>>

RECURSIVE animations_json(_)
\* for anim in self.animations:
\*     obj['animations'][anim.identifier] = anim.get_json()
animations_json(animations) ==
    IF animations = << >> THEN << >>
    ELSE LET n == Len(animations)
         IN DictSet(animations_json(SubSeq(animations, 1, n - 1)),
                    animations[n].identifier,
                    Animation_get_json(animations[n]))

\* AnimationFile.get_json, reading the list self.animations refers to
AnimationFile_get_json(self, lists) ==
    <<<<"format_version", self.format_version>>,
      <<"animations", animations_json(lists[self.animations])>>>>

\* self.trigger_time = trigger_time; self.commands = commands
AnimTimelineItem_init(trigger_time, commands) ==
    /\ Len(items) < MaxObjects
    /\ IF commands = NoArg
       THEN /\ items' = Append(items, [trigger_time |-> trigger_time,
                                       commands |-> AnimTimelineItem_defaults])
            /\ heap' = heap
       ELSE /\ items' = Append(items, [trigger_time |-> trigger_time,
                                       commands |-> Len(heap) + 1])
            /\ heap' = Append(heap, Val(commands))
    /\ ctor_args' = [ctor_args EXCEPT !.AnimTimelineItem = Append(@, commands)]
    /\ UNCHANGED <<files, heap_op>>
    /\ UNCHANGED <<entity_vars, part_vars>>

\* self.commands.append(cmd)
add_command(self, cmd) ==
    /\ self \in 1..Len(items)
    /\ heap_op.count < MaxAdded
    /\ heap' = [heap EXCEPT ![items[self].commands] = Append(@, cmd)]
    /\ heap_op' = [op |-> "add_command", cls |-> "AnimTimelineItem",
                   target |-> self, count |-> heap_op.count + 1]
    /\ UNCHANGED <<files, items, ctor_args>>
    /\ UNCHANGED <<entity_vars, part_vars>>

\* self.commands.extend(cmds)
add_commands(self, cmds) ==
    /\ self \in 1..Len(items)
    /\ heap_op.count < MaxAdded
    /\ heap' = [heap EXCEPT ![items[self].commands] = @ \o cmds]
    /\ heap_op' = [op |-> "add_commands", cls |-> "AnimTimelineItem",
                   target |-> self, count |-> heap_op.count + 1]
    /\ UNCHANGED <<files, items, ctor_args>>
    /\ UNCHANGED <<entity_vars, part_vars>>

\* AnimTimelineItem.get_json: the command itself when there is exactly one,
\* the list otherwise
AnimTimelineItem_get_json(self, lists) ==
    IF Len(lists[self.commands]) = 1
    THEN [str |-> lists[self.commands][1]]
    ELSE [list |-> lists[self.commands]]


\* ---- specifications ---------------------------------------------------------------
\* the state after Entity(...) with despawnable=False and no spawn_groups
Init ==
    /\ _current_state = 0
    /\ _bancos = << >>
    /\ rancos = << >>
    /\ _component_groups = << >>
    /\ _events = << >>
    /\ _spawn_groups = << >>
    /\ _spawn_properties = << >>
    /\ _lstate_names = << >>
    /\ calls = << >>
    /\ doc = NoDoc
    /\ prev_doc = NoDoc
    /\ last_op = "init"
    /\ njson = 0
    /\ evt = Event("test_event", None, << >>, << >>)
    /\ evt_call = [next_event |-> None]
    /\ evt_json = NoArg
    /\ ctl = AnimationController_init("test_anco", NoArg)
    /\ ctl_call = [initial_state |-> NoArg, added |-> << >>,
                   reassigned |-> FALSE]
    /\ tp_call = [made |-> FALSE]
    /\ group_call = [made |-> FALSE]
    /\ heap = << << >>, << >> >>
    /\ files = << >>
    /\ items = << >>
    /\ ctor_args = [AnimationFile |-> << >>, AnimTimelineItem |-> << >>]
    /\ heap_op = [op |-> "none", cls |-> "none", target |-> 0, count |-> 0]

\* the defaults of add_loop_state's signature
DefaultArgs ==
    [banco_id |-> 0, ranco_id |-> 0, entry_commands |-> NoArg,
     exit_commands |-> NoArg, timer_len |-> NoArg, last_state |-> FALSE,
     name |-> None, connection_list |-> NoArg, timer_state |-> None,
     animation |-> None, end_anim_with_state |-> TRUE,
     set_properties |-> NoArg]

Call(a) ==
    add_loop_state(a.banco_id, a.ranco_id, a.entry_commands, a.exit_commands,
                   a.timer_len, a.last_state, a.name, a.connection_list,
                   a.timer_state, a.animation, a.end_anim_with_state,
                   a.set_properties)

\* number of calls that raised
Failed(cs) == Cardinality({i \in 1..Len(cs) : cs[i].result = "IndexError"})

Failures == Failed(calls)

BranchNames == {"hurt", "flee"}

\* linear sequences: no name, connection_list or timer_state
LinearArgs ==
    {[DefaultArgs EXCEPT !.last_state = l, !.timer_len = t] :
        l \in BOOLEAN, t \in {NoArg, Arg(5)}}

\* branching sequences: <<name, connection_list, timer_len, timer_state>>
BranchArgs ==
    {[DefaultArgs EXCEPT !.name = x[1], !.connection_list = x[2],
                         !.timer_len = x[3], !.timer_state = x[4]] :
        x \in {<<None, NoArg, NoArg, None>>,
               <<"hurt", NoArg, NoArg, None>>,
               <<"flee", NoArg, NoArg, None>>,
               <<None, Arg(<<"hurt">>), NoArg, None>>,
               <<None, Arg(<<"flee", "hurt">>), NoArg, None>>,
               <<None, NoArg, Arg(5), "hurt">>,
               <<None, Arg(<<"hurt">>), Arg(5), "hurt">>,
               <<"hurt", Arg(<<"hurt">>), NoArg, None>>}}

\* sequences that use the controllers:
\* <<banco_id, entry_commands, exit_commands, ranco_id, animation,
\*   end_anim_with_state>>
AncoArgs ==
    {[DefaultArgs EXCEPT !.banco_id = x[1], !.entry_commands = x[2],
                         !.exit_commands = x[3], !.ranco_id = x[4],
                         !.animation = x[5], !.end_anim_with_state = x[6]] :
        x \in {<<0, NoArg, NoArg, 0, None, TRUE>>,
               <<0, Arg(<<"/say hi">>), NoArg, 0, None, TRUE>>,
               <<0, NoArg, NoArg, 0, "walk", FALSE>>,
               <<-1, Arg(<<"/say hi">>), Arg(<<"/say bye">>), 0, "walk", TRUE>>}}

\* one add_loop_state call, at most MaxStates that succeed and MaxFailures
\* that raise
LoopState(Args) ==
    /\ _current_state < MaxStates
    /\ \E a \in Args : Call(a) /\ Failed(calls') <= MaxFailures

NextLinear ==
    \/ LoopState(LinearArgs)
    \/ get_json

SpecLinear == Init /\ [][NextLinear]_vars

NextBranch ==
    \/ LoopState(BranchArgs)
    \/ get_json

SpecBranch == Init /\ [][NextBranch]_vars

NextSpawn ==
    \/ LoopState(BranchArgs)
    \/ add_spawn_group("state_0")
    \/ get_json

SpecSpawn == Init /\ [][NextSpawn]_vars

NextAnco ==
    \/ LoopState(AncoArgs)
    \/ create_banco("main", None)
    \/ create_ranco("main", None)

SpecAnco == Init /\ [][NextAnco]_vars

\* branch names that are contained in other strings of the document:
\* "state" in every loop-state id, "hurt" in "hurt2";
\* <<name, connection_list, timer_len, timer_state>>
SubstArgs ==
    {[DefaultArgs EXCEPT !.name = x[1], !.connection_list = x[2],
                         !.timer_len = x[3], !.timer_state = x[4]] :
        x \in {<<None, NoArg, NoArg, None>>,
               <<"state", NoArg, NoArg, None>>,
               <<"hurt", NoArg, NoArg, None>>,
               <<None, NoArg, Arg(5), "hurt">>,
               <<None, NoArg, Arg(5), "hurt2">>,
               <<None, Arg(<<"state">>), NoArg, None>>}}

NextSubst ==
    \/ LoopState(SubstArgs)
    \/ get_json

SpecSubst == Init /\ [][NextSubst]_vars

\* timers: every combination of timer_len, last_state, timer_state and
\* connection_list, and a call that names the state "hurt"
TimerArgs ==
    {[DefaultArgs EXCEPT !.timer_len = t, !.last_state = l,
                         !.timer_state = s, !.connection_list = c] :
        t \in {NoArg, Arg(5)}, l \in BOOLEAN, s \in {None, "hurt"},
        c \in {NoArg, Arg(<<"flee">>)}}
    \cup {[DefaultArgs EXCEPT !.name = "hurt"]}

NextTimer == LoopState(TimerArgs)

SpecTimer == Init /\ [][NextTimer]_vars

\* set_properties on any state, with and without a timer
PropertyArgs ==
    {[DefaultArgs EXCEPT !.set_properties = p, !.timer_len = t] :
        p \in {NoArg, Arg(<<<<"mood", 1>>>>), Arg(<<<<"size", 2>>>>)},
        t \in {NoArg, Arg(5)}}

NextProperty == LoopState(PropertyArgs) \/ get_json

SpecProperty == Init /\ [][NextProperty]_vars

\* closed sequences whose timers target the next state, state_0 or a named
\* branch; <<name, timer_len, timer_state, last_state>>
TargetArgs ==
    {[DefaultArgs EXCEPT !.name = x[1], !.timer_len = x[2],
                         !.timer_state = x[3], !.last_state = x[4]] :
        x \in {<<None, NoArg, None, FALSE>>,
               <<"hurt", NoArg, None, FALSE>>,
               <<"hurt2", NoArg, None, FALSE>>,
               <<None, Arg(5), None, FALSE>>,
               <<None, Arg(5), None, TRUE>>,
               <<None, Arg(5), "hurt", TRUE>>,
               <<None, Arg(5), "hurt2", TRUE>>}}

NextTarget == LoopState(TargetArgs) \/ get_json

SpecTarget == Init /\ [][NextTarget]_vars

\* calls with no commands and no animation, with entry commands only, with
\* an animation only, on entities with and without controllers;
\* <<entry_commands, animation>>
PlainArgs ==
    {[DefaultArgs EXCEPT !.entry_commands = x[1], !.animation = x[2]] :
        x \in {<<NoArg, None>>,
               <<Arg(<<"/say hi">>), None>>,
               <<NoArg, "walk">>}}

NextPlain ==
    \/ LoopState(PlainArgs)
    \/ create_banco("main", None)
    \/ create_ranco("main", None)

SpecPlain == Init /\ [][NextPlain]_vars

\* a stand-alone Event: construction, the add_* methods, get_json
NextEvent ==
    \/ \E a \in EventArgs : new_event(a)
    \/ add_add_group("component_group_id")
    \/ add_remove_group("old_group_id")
    \/ \E r \in Randomizers : add_randomizer(r)
    \/ \E e \in SubEvents : add_sequential_event(e)
    \/ event_get_json

SpecEvent == Init /\ [][NextEvent]_vars

\* a stand-alone AnimationController
NextController ==
    \/ \E i \in {NoArg, Arg("test_state")} : new_anco(i)
    \/ \E id \in StateIds : anco_add_state(id)
    \/ \E id1, id2 \in StateIds : anco_add_states(id1, id2)
    \/ set_initial_state("idle")

SpecController == Init /\ [][NextController]_vars

\* positions handed to tp: absent, a number, a relative coordinate
Positions == {PyNone, PyInt(2), PyStr("~1")}

\* calls whose parameters must come in combinations
NextParams ==
    \/ \E v \in {None, "@p"}, x, y, z \in Positions, t \in {None, "@s"},
          c, i \in BOOLEAN : tp(v, x, y, z, t, c, i)
    \/ \E k \in {NoArg, Arg(0)}, l \in {NoArg, Arg(5)},
          e \in {None, "test_event"} : new_group(k, l, e)

SpecParams == Init /\ [][NextParams]_vars

\* animation files and timeline items, constructed with and without a list
NextDefaults ==
    \/ \E animations \in {NoArg, Arg(<<Animation("animation.walk", FALSE)>>)} :
           AnimationFile_init(animations)
    \/ \E self \in 1..MaxObjects :
           add_anim(self, Animation("animation.run", TRUE))
    \/ \E self \in 1..MaxObjects :
           add_anims(self, <<Animation("animation.walk", FALSE),
                             Animation("animation.run", TRUE)>>)
    \/ \E commands \in {NoArg, Arg(<<"/say hi">>)} :
           AnimTimelineItem_init(None, commands)
    \/ \E self \in 1..MaxObjects : add_command(self, "/say bye")
    \/ \E self \in 1..MaxObjects : add_commands(self, <<"/say a", "/say b">>)

SpecDefaults == Init /\ [][NextDefaults]_vars

Next ==
    \/ NextLinear \/ NextBranch \/ NextSpawn \/ NextAnco \/ NextSubst
    \/ NextTimer \/ NextProperty \/ NextTarget \/ NextPlain
    \/ NextEvent \/ NextController \/ NextParams \/ NextDefaults

Spec == Init /\ [][Next]_vars

\* ---- properties -----------------------------------------------------------------
lstate(n) == "state_" \o ToString(n)

\* the list under events.<id>.<key>.component_groups of a serialised event,
\* empty when the key is absent
json_list(ev, key) == IF DictHas(ev, key) THEN DictGet(ev, key) ELSE << >>

\* the add- and remove-list Event.get_json emits for the event with this id
add_list(id) == json_list(Event_get_json(_events[get_event(_events, id)]), "add")

remove_list(id) ==
    json_list(Event_get_json(_events[get_event(_events, id)]), "remove")

Branching(c) ==
    c.name # None \/ c.connection_list # NoArg \/ c.timer_state # None

\* states 0..n (n >= 1) were created linearly and only the last call passed
\* last_state=True
ClosedLinear ==
    /\ Len(calls) >= 2
    /\ \A i \in 1..Len(calls) :
          /\ calls[i].result = "ok"
          /\ ~Branching(calls[i])
          /\ calls[i].last_state = (i = Len(calls))

\* C1: after a closed linear sequence creating states 0..n, state_0's event
\* removes exactly [state_n] and state_k's event removes exactly
\* [state_{k-1}] for 1 <= k <= n.
C1_ClosedLoopRemoveLists ==
    ClosedLinear =>
        LET n == Len(calls) - 1
        IN /\ remove_list("state_0") = <<lstate(n)>>
           /\ \A k \in 1..n : remove_list(lstate(k)) = <<lstate(k - 1)>>

\* N >= 1 calls were made, none passing last_state, name, connection_list or
\* timer_state
OpenLinear ==
    /\ Len(calls) >= 1
    /\ \A i \in 1..Len(calls) :
          /\ calls[i].result = "ok"
          /\ ~Branching(calls[i])
          /\ ~calls[i].last_state

\* C2: after N >= 1 calls without last_state, name, connection_list and
\* timer_state, every event state_k with 1 <= k < N adds exactly [state_k]
\* and removes exactly [state_{k-1}], and state_0's event does not remove
\* the final state state_{N-1}.
C2_OpenLinearRemoveLists ==
    OpenLinear =>
        LET N == Len(calls)
        IN /\ \A k \in 1..(N - 1) :
                 /\ add_list(lstate(k)) = <<lstate(k)>>
                 /\ remove_list(lstate(k)) = <<lstate(k - 1)>>
           /\ ~InList(lstate(N - 1), remove_list("state_0"))

C2_Witness ==
    /\ OpenLinear
    /\ Len(calls) = 3
    /\ last_op = "get_json"
    /\ remove_list("state_2") = <<"state_1">>

\* the remove-list of the event with this id in a returned document
doc_remove_list(d, id) ==
    IF DictHas(d.events, id) THEN json_list(DictGet(d.events, id), "remove")
    ELSE << >>

\* C3: if state i was created with connection_list containing B and a later
\* call created state j with name=B, then after get_json the event of
\* state i has state_j in its remove-list.
C3_SourceEventRemovesTarget ==
    last_op = "get_json" =>
        \A i, j \in 1..Len(calls) : \A B \in BranchNames :
            ( /\ i < j
              /\ calls[i].result = "ok" /\ calls[j].result = "ok"
              /\ calls[i].connection_list # NoArg
              /\ InList(B, Val(calls[i].connection_list))
              /\ calls[j].name = B )
            => /\ InList(lstate(calls[j].k), remove_list(lstate(calls[i].k)))
               /\ InList(lstate(calls[j].k),
                         doc_remove_list(doc, lstate(calls[i].k)))

\* C4: after get_json, for every registry entry whose element 0 is the id of
\* a created loop state T, the remove-list of T's event holds every source
\* registered under the branch exactly once, and T's linear predecessor.
C4_TargetEventRemovesSources ==
    last_op = "get_json" =>
        \A n \in 1..Len(_lstate_names) : \A t \in 0..(_current_state - 1) :
            LET v == _lstate_names[n][2]
            IN v[1] = lstate(t) =>
                  /\ \A i \in 2..Len(v) :
                        /\ Count(v[i], remove_list(lstate(t))) = 1
                        /\ Count(v[i], doc_remove_list(doc, lstate(t))) = 1
                  /\ t >= 1 => /\ InList(lstate(t - 1), remove_list(lstate(t)))
                               /\ InList(lstate(t - 1),
                                         doc_remove_list(doc, lstate(t)))

\* state_1 is the target of "hurt"; state_0 registered before state_1 was
\* named, state_2 after
C4_Witness ==
    /\ last_op = "get_json"
    /\ DictHas(_lstate_names, "hurt")
    /\ DictGet(_lstate_names, "hurt") = <<"state_1", "state_0", "state_2">>
    /\ remove_list("state_1") = <<"state_0", "state_2">>
    /\ doc_remove_list(doc, "state_1") = <<"state_0", "state_2">>

\* the ids of a list of groups or events
ids(lst) == [i \in 1..Len(lst) |-> lst[i].identifier]

\* C5 (state part): after n calls that all succeeded the counter is n, the
\* component groups are state_0 .. state_{n-1} in creation order and the
\* events are one per state, in the same order.
C5_Dense ==
    Failures = 0 =>
        /\ _current_state = Len(calls)
        /\ ids(_component_groups) = [i \in 1.._current_state |-> lstate(i - 1)]
        /\ ids(_events) = [i \in 1.._current_state |-> lstate(i - 1)]
        /\ \A k \in 0..(_current_state - 1) :
              Cardinality({i \in 1..Len(_events) :
                              _events[i].identifier = lstate(k)}) = 1

\* C5 (step part): no step deletes, renames or reorders a group or an event
\* created before, and the counter never decreases.
C5_Step ==
    /\ _current_state' >= _current_state
    /\ Len(_component_groups') >= Len(_component_groups)
    /\ \A i \in 1..Len(_component_groups) :
          _component_groups'[i] = _component_groups[i]
    /\ Len(_events') >= Len(_events)
    /\ \A i \in 1..Len(_events) :
          _events'[i].identifier = _events[i].identifier

\* C5: loop-state indices are dense from 0 in creation order, one group and
\* one event per state, and nothing created is deleted, renamed or
\* reordered; the counter never decreases.
C5_DenseIndices == [](C5_Dense) /\ [][C5_Step]_vars

C5_Witness ==
    /\ Failures = 0
    /\ _current_state = 3
    /\ \E i \in 1..Len(calls) : calls[i].wired_banco
    /\ \E i \in 1..Len(calls) : calls[i].wired_ranco
    /\ ids(_component_groups) = <<"state_0", "state_1", "state_2">>

\* C6: once element 0 of a registry entry is a state id, no later step
\* changes it.
C6_TargetSlotPermanent ==
    [][\A n \in 1..Len(_lstate_names) :
          _lstate_names[n][2][1] # None =>
             /\ Len(_lstate_names') >= n
             /\ _lstate_names'[n][1] = _lstate_names[n][1]
             /\ _lstate_names'[n][2][1] = _lstate_names[n][2][1]]_vars

\* what a returned document shows
doc_value(d) == <<d.component_groups, d.events>>

\* at least one loop state exists and every registered branch has its target
FullyDeclared ==
    /\ _current_state >= 1
    /\ \A n \in 1..Len(_lstate_names) : _lstate_names[n][2][1] # None

\* C7: two get_json calls in succession on a fully declared entity return
\* equal documents.
C7_SecondGetJsonEqual ==
    (last_op = "get_json" /\ prev_doc.returned /\ FullyDeclared)
        => doc_value(doc) = doc_value(prev_doc)

\* the position in _bancos / rancos a call addressed
call_banco(c) ==
    IF c.banco_id >= 0 THEN c.banco_id + 1 ELSE c.nbancos + c.banco_id + 1

call_ranco(c) ==
    IF c.ranco_id >= 0 THEN c.ranco_id + 1 ELSE c.nrancos + c.ranco_id + 1

uses_banco(c) == c.entry_commands # NoArg \/ c.exit_commands # NoArg

uses_ranco(c) == c.animation # None

\* the transitions of the controller's "init" state, empty without one
init_transitions(anco) ==
    IF has_state(anco, "init")
    THEN anco._states[get_state(anco, "init")]._transitions ELSE << >>

\* C8: every loop state k created with entry or exit commands on behavior
\* controller b has in b a state state_k with a transition to "init" under
\* "query.skin_id!=k", and b's "init" has a transition to state_k under
\* "query.skin_id==k".
C8_HubAndSpoke ==
    \A i \in 1..Len(calls) :
        LET c == calls[i]
            b == _bancos[call_banco(c)]
        IN (c.result = "ok" /\ uses_banco(c)) =>
              /\ \E n \in 1..Len(b._states) :
                    /\ b._states[n].identifier = lstate(c.k)
                    /\ InList(<<"init", "query.skin_id!=" \o ToString(c.k)>>,
                              b._states[n]._transitions)
              /\ has_state(b, "init")
              /\ InList(<<lstate(c.k), "query.skin_id==" \o ToString(c.k)>>,
                        init_transitions(b))

C8_Witness ==
    /\ Len(_bancos) >= 1
    /\ \E i \in 1..Len(calls) :
          calls[i].k = 2 /\ calls[i].result = "ok" /\ uses_banco(calls[i])
    /\ InList(<<"state_2", "query.skin_id==2">>, init_transitions(_bancos[1]))
    /\ \E n \in 1..Len(_bancos[1]._states) :
          /\ _bancos[1]._states[n].identifier = "state_2"
          /\ _bancos[1]._states[n]._transitions
                = <<<<"init", "query.skin_id!=2">>>>

\* the loop states wired into the controller at position p
wired_bancos(p) ==
    {calls[i].k : i \in {j \in 1..Len(calls) :
                            calls[j].wired_banco /\ call_banco(calls[j]) = p}}

wired_rancos(p) ==
    {calls[i].k : i \in {j \in 1..Len(calls) :
                            calls[j].wired_ranco /\ call_ranco(calls[j]) = p}}

\* at most one "init" state, with exactly one transition to each wired loop
\* state and none to another loop state
HubExact(anco, wired) ==
    /\ Cardinality({n \in 1..Len(anco._states) :
                       anco._states[n].identifier = "init"}) <= 1
    /\ \A k \in 0.._current_state :
          LET to_k == {n \in 1..Len(init_transitions(anco)) :
                          init_transitions(anco)[n][1] = lstate(k)}
          IN IF k \in wired
             THEN /\ Cardinality(to_k) = 1
                  /\ \A n \in to_k :
                        init_transitions(anco)[n][2]
                            = "query.skin_id==" \o ToString(k)
             ELSE to_k = {}

\* C9: every controller has at most one "init" state, and it has exactly
\* one transition to state_k for every loop state k wired into that
\* controller and no transition to another loop state.
C9_InitHubExact ==
    /\ \A p \in 1..Len(_bancos) : HubExact(_bancos[p], wired_bancos(p))
    /\ \A p \in 1..Len(rancos) : HubExact(rancos[p], wired_rancos(p))

\* the call addressed a controller index that did not exist when it was made
bad_banco(c) ==
    uses_banco(c) /\ ~(-c.nbancos <= c.banco_id /\ c.banco_id < c.nbancos)

bad_ranco(c) ==
    uses_ranco(c) /\ ~(-c.nrancos <= c.ranco_id /\ c.ranco_id < c.nrancos)

\* C10: add_loop_state with commands and a banco_id without controller, or
\* with an animation and a ranco_id without controller, raises IndexError:
\* it does not complete and does not advance the state counter.
C10_BadIndexRaises ==
    \A i \in 1..Len(calls) :
        (bad_banco(calls[i]) \/ bad_ranco(calls[i])) =>
            /\ calls[i].result = "IndexError"
            /\ calls[i].k = IF i < Len(calls) THEN calls[i + 1].k
                            ELSE _current_state

C10_Witness ==
    /\ last_op = "add_loop_state"
    /\ bad_banco(calls[Len(calls)])
    /\ calls[Len(calls)].result = "IndexError"
    /\ Len(calls) >= 2
    /\ _current_state = calls[Len(calls)].k


\* ---- C11 .. C13: Event.get_json -------------------------------------------------
\* the JSON object with the single key k
Obj1(k, v) == <<<<k, v>>>>

TriggerObj(x) == <<<<"event", x>>, <<"target", "self">>>>

\* C11: an Event constructed with next_event=X (X not None) serialises with
\* trigger.event == X and target "self"; an Event constructed without a
\* next event serialises without a "trigger" key.
C11_NextEventTrigger ==
    evt_json # NoArg =>
        IF evt_call.next_event # None
        THEN /\ DictHas(Val(evt_json), "trigger")
             /\ DictGet(Val(evt_json), "trigger")
                    = TriggerObj(evt_call.next_event)
        ELSE ~DictHas(Val(evt_json), "trigger")

\* the sequence the claim describes for an event with randomizers: the add
\* part, then remove and set_property when present, then the randomize part
RandomizerSequence ==
    <<Obj1("add", evt._add_groups)>>
    \o (IF evt._remove_groups # << >>
        THEN <<Obj1("remove", evt._remove_groups)>> ELSE << >>)
    \o (IF evt._set_properties # << >>
        THEN <<Obj1("set_property", evt._set_properties)>> ELSE << >>)
    \o <<Obj1("randomize",
              [i \in 1..Len(evt._randomizers) |->
                  EventRandomizer_get_json(evt._randomizers[i])])>>

NoTopLevelParts(j) ==
    ~DictHas(j, "add") /\ ~DictHas(j, "remove") /\ ~DictHas(j, "set_property")

\* C12 as stated: for ANY event with at least one randomizer and a non-empty
\* add list the top-level "sequence" is add, [remove], [set_property],
\* randomize, and there is no top-level add / remove / set_property key.
C12_AnyEvent ==
    (evt_json # NoArg /\ Len(evt._randomizers) > 0 /\ Len(evt._add_groups) > 0)
    => /\ DictHas(Val(evt_json), "sequence")
       /\ DictGet(Val(evt_json), "sequence") = RandomizerSequence
       /\ NoTopLevelParts(Val(evt_json))

\* C12 (amended): the same for an event that has no sequential sub-events.
C12_RandomizerSequence ==
    (/\ evt_json # NoArg
     /\ Len(evt._randomizers) > 0
     /\ Len(evt._add_groups) > 0
     /\ Len(evt._sequential_events) = 0)
    => /\ DictHas(Val(evt_json), "sequence")
       /\ DictGet(Val(evt_json), "sequence") = RandomizerSequence
       /\ NoTopLevelParts(Val(evt_json))

C12_Witness ==
    /\ evt_json # NoArg
    /\ Len(evt._randomizers) = 2
    /\ Len(evt._add_groups) > 0
    /\ Len(evt._remove_groups) > 0
    /\ Len(evt._set_properties) > 0
    /\ Len(evt._sequential_events) = 0
    /\ Len(DictGet(Val(evt_json), "sequence")) = 4

\* C13: randomizer wrapping first, then sequential wrapping, then the
\* trigger: with sequential sub-events the result is
\* {"sequence": [P, s1, .., sn]}, P the complete primary object
\* (randomizer-wrapped when there are randomizers, plain otherwise), and
\* when a next event was given "trigger" is a top-level key in every shape.
C13_WrappingOrder ==
    evt_json # NoArg =>
        LET P == IF Len(evt._randomizers) > 0
                 THEN Obj1("sequence",
                          [i \in 1..Len(Event_parts(evt)) |->
                              <<Event_parts(evt)[i]>>]
                          \o <<RandomizerSequence[Len(RandomizerSequence)]>>)
                 ELSE Event_parts(evt)
            body == IF Len(evt._sequential_events) > 0
                    THEN Obj1("sequence",
                             <<P>> \o
                             [i \in 1..Len(evt._sequential_events) |->
                                 Event_get_json(evt._sequential_events[i])])
                    ELSE P
        IN Val(evt_json) =
               IF evt_call.next_event # None
               THEN body \o Obj1("trigger", TriggerObj(evt_call.next_event))
               ELSE body

\* ---- C14, C15: AnimationController -------------------------------------------------
\* get_json()["animation_controllers"][identifier]
ctl_json ==
    DictGet(DictGet(AnimationController_get_json(ctl), "animation_controllers"),
            ctl.identifier)

\* C14: after any sequence of add_state / add_states calls the serialised
\* "states" has a key for every added id, has_state(id) is true exactly for
\* the added ids, get_state(id) is None exactly for the others, and
\* "initial_state" is the constructor argument unless it was reassigned.
C14_StatesRoundTrip ==
    /\ \A i \in 1..Len(ctl_call.added) :
           DictHas(DictGet(ctl_json, "states"), ctl_call.added[i])
    /\ \A id \in StateIds \cup {"absent"} :
           /\ has_state(ctl, id) <=> InList(id, ctl_call.added)
           /\ get_state(ctl, id) = 0 <=> ~InList(id, ctl_call.added)
    /\ ~ctl_call.reassigned =>
           DictGet(ctl_json, "initial_state") =
               IF ctl_call.initial_state = NoArg THEN "init"
               ELSE Val(ctl_call.initial_state)

C14_Witness ==
    /\ Len(ctl_call.added) = 3
    /\ ctl_call.added[1] # ctl_call.added[2]
    /\ ctl_call.initial_state = Arg("test_state")
    /\ ~ctl_call.reassigned
    /\ ~has_state(ctl, "init")
    /\ DictGet(ctl_json, "initial_state") = "test_state"

\* C15: no AnimationController holds two AncoState objects with the same
\* identifier, whatever add_state / add_states calls were made.
C15_UniqueStateIds ==
    \A i, j \in 1..Len(ctl._states) :
        i # j => ctl._states[i].identifier # ctl._states[j].identifier

\* ---- C16, C17: missing parameter combinations ----------------------------------------
\* C16: tp without target_selector and without all three of x, y, z raises
\* MissingParameterError; with x, y, z all given (and no target_selector)
\* the returned command has "<x> <y> <z>" after the victim selector.
C16_TpPositions ==
    (tp_call.made /\ tp_call.target_selector = None) =>
        IF PyNone \in {tp_call.x, tp_call.y, tp_call.z}
        THEN tp_call.result = "MissingParameterError"
        ELSE /\ tp_call.result = "ok"
             /\ tp_call.value =
                    _command_stem("tp", tp_call.include_slash)
                    \o (IF tp_call.victim_selector # None
                        THEN " " \o tp_call.victim_selector ELSE "")
                    \o " " \o format(tp_call.x) \o " " \o format(tp_call.y)
                    \o " " \o format(tp_call.z)
                    \o (IF tp_call.check_for_blocks THEN " true" ELSE "")

\* C17: ComponentGroup(...) with exactly one of timer_len and timer_event is
\* signalled as a missing-parameter error; it does not return a group.
C17_PartialTimerRaises ==
    (/\ group_call.made
     /\ (group_call.timer_len # NoArg) # (group_call.timer_event # None))
    => group_call.result = "MissingParameterError"

\* ---- C18: create_banco / create_ranco without initial_state --------------------------
\* the serialised "initial_state" of a controller
json_initial_state(a) ==
    DictGet(DictGet(DictGet(AnimationController_get_json(a),
                            "animation_controllers"), a.identifier),
            "initial_state")

\* C18: a controller made by create_banco / create_ranco without
\* initial_state (every controller of SpecAnco) has initial_state "init",
\* as attribute and serialised, also before a loop state is wired into it.
C18_DefaultInitialState ==
    /\ \A i \in 1..Len(_bancos) :
           /\ _bancos[i].initial_state = "init"
           /\ json_initial_state(_bancos[i]) = "init"
    /\ \A i \in 1..Len(rancos) :
           /\ rancos[i].initial_state = "init"
           /\ json_initial_state(rancos[i]) = "init"

\* ---- C19, C20: the substitution pass of Behaviors.get_json -----------------------------
\* the document was returned by the step just taken
JustReturned == doc.returned /\ last_op = "get_json"

\* the j-th component of the i-th group of the returned document
doc_comp(i, j) == doc.component_groups[i][2][j][2]

Unresolved(n) == _lstate_names[n][2][1] = None

\* every occurrence of an unresolved name in the groups (the timer targets
\* that name it) is still that name in the returned document
C19_LeftUnsubstituted ==
    JustReturned =>
        \A n \in 1..Len(_lstate_names) : Unresolved(n) =>
            \A i \in 1..Len(_component_groups) :
                \A j \in 1..Len(_component_groups[i]._components) :
                    _component_groups[i]._components[j].event
                        = _lstate_names[n][1]
                    => /\ Len(doc.component_groups) = Len(_component_groups)
                       /\ doc_comp(i, j).event = _lstate_names[n][1]

\* whatever a get_json step appends to the remove-list of an event is a
\* source of a registry entry whose element 0 is that event
C19_Step ==
    njson' = njson + 1 =>
        \A p \in 1..Len(_events) :
            \A q \in (Len(_events[p]._remove_groups) + 1)
                         ..Len(_events'[p]._remove_groups) :
                \E n \in 1..Len(_lstate_names) :
                    /\ ~Unresolved(n)
                    /\ Event_get_id(_events[p]) = _lstate_names[n][2][1]
                    /\ \E i \in 2..Len(_lstate_names[n][2]) :
                           _lstate_names[n][2][i] = _events'[p]._remove_groups[q]

\* C19: a branch name B whose element 0 is still None when get_json runs is
\* left un-substituted wherever it occurs in the document, and get_json
\* adds nothing to any event's remove-list on account of B.
C19_UnresolvedLeftAlone == [](C19_LeftUnsubstituted) /\ [][C19_Step]_vars

\* what a string of the document becomes when bare tokens are replaced
TokenResolved(x) ==
    IF \E n \in 1..Len(_lstate_names) :
           ~Unresolved(n) /\ _lstate_names[n][1] = x
    THEN DictGet(_lstate_names, x)[1]
    ELSE x

\* C20: the substitution replaces exactly the strings that ARE a resolved
\* branch name: group ids, event ids and the ids in add and remove lists
\* (none of which is a branch name) come out unchanged, and a timer target
\* comes out as the target id when it is a resolved name, unchanged
\* otherwise.
C20_BareTokensOnly ==
    (JustReturned /\ Len(_lstate_names) > 0) =>
        /\ [i \in 1..Len(doc.component_groups) |-> doc.component_groups[i][1]]
               = [i \in 1..Len(_component_groups) |->
                     _component_groups[i].identifier]
        /\ [i \in 1..Len(doc.events) |-> doc.events[i][1]]
               = [i \in 1..Len(_events) |-> Event_get_id(_events[i])]
        /\ \A i \in 1..Len(doc.events) :
               /\ json_list(doc.events[i][2], "add") = _events[i]._add_groups
               /\ json_list(doc.events[i][2], "remove")
                      = _events[i]._remove_groups
        /\ \A i \in 1..Len(_component_groups) :
               \A j \in 1..Len(_component_groups[i]._components) :
                   doc_comp(i, j).event =
                       TokenResolved(_component_groups[i]._components[j].event)

\* ---- C21, C22: the timer of a loop state -------------------------------------------------
\* how often id is listed as a source (elements 1..) under branch name b
SrcCount(b, id) ==
    IF DictHas(_lstate_names, b)
    THEN Cardinality({i \in 2..Len(DictGet(_lstate_names, b)) :
                         DictGet(_lstate_names, b)[i] = id})
    ELSE 0

\* the list of a call's connection_list argument, [] when it was omitted
given_list(c) ==
    IF c.connection_list = NoArg THEN << >> ELSE Val(c.connection_list)

\* C21: with timer_len the group's timer targets timer_state if given (also
\* with last_state=True), else state_{k+1} if last_state is False, else
\* state_0; without timer_len the group has no timer component and the
\* call registers state_k under timer_state nowhere.
C21_TimerTarget ==
    \A i \in 1..Len(calls) :
        LET c == calls[i]
            comps == _component_groups[i]._components
        IN c.result = "ok" =>
            IF c.timer_len # NoArg
            THEN /\ Len(comps) = 2
                 /\ comps[2].comp_type = "timer"
                 /\ comps[2].event =
                        IF c.timer_state # None THEN c.timer_state
                        ELSE IF ~c.last_state THEN lstate(c.k + 1)
                        ELSE "state_0"
            ELSE /\ \A j \in 1..Len(comps) : comps[j].comp_type # "timer"
                 /\ c.timer_state # None =>
                        SrcCount(c.timer_state, lstate(c.k))
                            = Count(c.timer_state, given_list(c))

C21_Witness ==
    /\ \E i \in 1..Len(calls) :
           /\ calls[i].timer_len # NoArg /\ calls[i].last_state
           /\ calls[i].timer_state = "hurt"
           /\ _component_groups[i]._components[2].event = "hurt"
    /\ \E i \in 1..Len(calls) :
           /\ calls[i].timer_len # NoArg /\ calls[i].last_state
           /\ calls[i].timer_state = None
    /\ \E i \in 1..Len(calls) :
           /\ calls[i].timer_len = NoArg /\ calls[i].timer_state = "hurt"
           /\ Len(_component_groups[i]._components) = 1
           /\ SrcCount("hurt", lstate(calls[i].k)) = 0

\* every name registered for state_k by its call holds it as a source once
\* per listing
C22_Sources ==
    \A i \in 1..Len(calls) :
        LET c == calls[i]
        IN c.result = "ok" =>
            /\ (c.timer_len # NoArg /\ c.timer_state # None) =>
                   /\ DictHas(_lstate_names, c.timer_state)
                   /\ SrcCount(c.timer_state, lstate(c.k))
                          = Count(c.timer_state, given_list(c)) + 1
            /\ \A j \in 1..Len(given_list(c)) :
                   /\ DictHas(_lstate_names, given_list(c)[j])
                   /\ SrcCount(given_list(c)[j], lstate(c.k)) >= 1

\* the call that registers state_k under B = timer_state (and does not name
\* itself B) creates [None, state_k] when B is unknown and otherwise
\* appends to the entry, leaving element 0 as it was
C22_Step ==
    LET c == calls'[Len(calls')]
        b == c.timer_state
    IN (/\ Len(calls') = Len(calls) + 1
        /\ c.result = "ok"
        /\ c.timer_len # NoArg /\ b # None /\ c.name # b)
       => IF DictHas(_lstate_names, b)
          THEN /\ DictGet(_lstate_names', b)[1] = DictGet(_lstate_names, b)[1]
               /\ Len(DictGet(_lstate_names', b))
                      > Len(DictGet(_lstate_names, b))
          ELSE /\ DictGet(_lstate_names', b)[1] = None
               /\ DictGet(_lstate_names', b)[2] = lstate(c.k)

Declares(c) == Len(calls') = Len(calls) + 1 /\ c.result = "ok"

C23_Step ==
    LET c == calls'[Len(calls')]
        e == _events'[Len(_events')]
    IN Declares(c) =>
        /\ e.identifier = lstate(c.k)
        /\ c.set_properties # NoArg =>
               e._set_properties = Val(c.set_properties)
        /\ (c.k >= 1 \/ c.set_properties = NoArg) =>
               _spawn_properties' = _spawn_properties
        /\ (c.k = 0 /\ c.set_properties # NoArg) =>
               _spawn_properties' =
                   DictUpdate(_spawn_properties, Val(c.set_properties))

\* C23: set_properties on a call creating state k >= 1 attaches to state_k's
\* event and leaves the spawn defaults unchanged; only the call creating
\* state 0 adds its set_properties to the spawn defaults; a call without
\* set_properties changes neither.
C23_SpawnDefaultsFromStateZero == [][C23_Step]_vars

C23_Witness ==
    /\ Len(calls) >= 2
    /\ calls[1].set_properties = Arg(<<<<"mood", 1>>>>)
    /\ calls[2].set_properties = Arg(<<<<"size", 2>>>>)
    /\ _spawn_properties = <<<<"mood", 1>>>>
    /\ \E i \in 1..Len(_events) :
           /\ _events[i].identifier = "state_1"
           /\ _events[i]._set_properties = <<<<"size", 2>>>>

\* ---- C24: calls without commands or animation -----------------------------------------
C24_Step ==
    LET c == calls'[Len(calls')]
        no_commands == c.entry_commands = NoArg /\ c.exit_commands = NoArg
        no_animation == c.animation = None
    IN Len(calls') = Len(calls) + 1 =>
        /\ no_commands => _bancos' = _bancos
        /\ no_animation => rancos' = rancos
        /\ (no_commands /\ no_animation) =>
               /\ c.result = "ok"
               /\ _component_groups' =
                      Append(_component_groups, _component_groups'[Len(_component_groups')])
               /\ _component_groups'[Len(_component_groups')].identifier = lstate(c.k)
               /\ Len(_events') = Len(_events) + 1
               /\ _events'[Len(_events')].identifier = lstate(c.k)
               /\ _current_state' = _current_state + 1

\* C24: a call with neither entry nor exit commands leaves every banco
\* unchanged, a call without animation leaves every ranco unchanged, and
\* such a call succeeds even when no controller was created, still adding
\* the group and the event and advancing the counter.
C24_ControllersUntouched == [][C24_Step]_vars

C24_Witness ==
    /\ \E i \in 1..Len(calls) :
           /\ calls[i].entry_commands = NoArg /\ calls[i].exit_commands = NoArg
           /\ calls[i].animation = None
           /\ calls[i].nbancos = 0 /\ calls[i].nrancos = 0
           /\ calls[i].result = "ok"
    /\ \E i \in 1..Len(calls) :
           /\ calls[i].entry_commands = NoArg /\ calls[i].exit_commands = NoArg
           /\ calls[i].nbancos > 0
           /\ calls[i].result = "ok"
    /\ \E i \in 1..Len(calls) :
           /\ calls[i].animation = None /\ calls[i].nrancos > 0
           /\ calls[i].wired_banco

\* ---- C25: running the loop ---------------------------------------------------------------
ListSet(l) == {l[i] : i \in 1..Len(l)}

\* the groups active after the event with this id ran on an entity with
\* these groups active: the remove-list is taken out, the add-list put in
run_event(active, id) ==
    (active \ ListSet(remove_list(id))) \cup ListSet(add_list(id))

RECURSIVE OneActiveThroughout(_, _, _)
\* the events state_i, state_{i+1}, .. (wrapping after state_n) run for this
\* many steps, each leaving exactly one group active
OneActiveThroughout(active, i, steps) ==
    IF steps = 0 THEN TRUE
    ELSE LET after == run_event(active, lstate(i))
         IN /\ Cardinality(after) = 1
            /\ OneActiveThroughout(after, (i + 1) % Len(calls), steps - 1)

\* C25: for a closed linear sequence, running the events in loop order
\* state_0, .., state_n, state_0, .. leaves exactly one loop-state group
\* active after every event, also after the wrap-around.
C25_OneActiveGroup ==
    ClosedLinear => OneActiveThroughout({}, 0, 2 * Len(calls))

\* ---- C26: group ids listed by loop-state events --------------------------------------------
group_ids == {_component_groups[i].identifier : i \in 1..Len(_component_groups)}

\* C26: once the sequence is fully declared (here: closed by last_state on
\* its final call), every group id in the add- or remove-list of a
\* loop-state event names an existing loop-state group; state_0's event
\* never lists state_-1.
C26_ListedGroupsExist ==
    ClosedLinear =>
        \A k \in 0..(Len(calls) - 1) :
            /\ ListSet(add_list(lstate(k))) \subseteq group_ids
            /\ ListSet(remove_list(lstate(k))) \subseteq group_ids

\* ---- C27: a call that raises ------------------------------------------------------------------
\* no two component groups share an identifier
NoDuplicateGroups ==
    \A i, j \in 1..Len(_component_groups) :
        _component_groups[i].identifier = _component_groups[j].identifier
            => i = j

C27_Step ==
    LET c == calls'[Len(calls')]
    IN (Len(calls') = Len(calls) + 1 /\ c.result = "IndexError") =>
        /\ UNCHANGED <<_component_groups, _bancos, rancos, _events,
                       _spawn_properties, _lstate_names, _current_state>>
        /\ c.connection_list_after = c.connection_list

\* C27: a call that fails with an out-of-range controller index leaves the
\* entity exactly as it was (no group, controller state, transition, event,
\* spawn default or registry entry added, the caller's connection_list
\* unmodified, the counter unchanged), so repeating the call never yields a
\* second state_k group.
C27_FailedCallLeavesNoTrace == [](NoDuplicateGroups) /\ [][C27_Step]_vars

\* ---- C28: timer targets in the returned document -----------------------------------------
\* every call succeeded, the final one passed last_state=True, and every
\* timer_state is a name some state declares with name=
ClosedAndDeclared ==
    /\ Len(calls) >= 1
    /\ calls[Len(calls)].last_state
    /\ \A i \in 1..Len(calls) :
          /\ calls[i].result = "ok"
          /\ (calls[i].timer_len # NoArg /\ calls[i].timer_state # None) =>
                 \E j \in 1..Len(calls) : calls[j].name = calls[i].timer_state

\* the time_down_event targets of the timers in a returned document
timer_targets(d) ==
    UNION {{d.component_groups[i][2][j][2].event :
                j \in 1..Len(d.component_groups[i][2])} :
            i \in 1..Len(d.component_groups)} \ {None}

event_ids(d) == {d.events[i][1] : i \in 1..Len(d.events)}

\* C28: for a sequence closed by last_state=True on its final call, with
\* every timer_state naming a declared branch, each timer's time_down_event
\* target in the returned component_groups is the id of an event under
\* events of the same document.
C28_TimerTargetsExist ==
    (JustReturned /\ ClosedAndDeclared)
        => timer_targets(doc) \subseteq event_ids(doc)

\* ---- C29: the spawn event over repeated get_json ---------------------------------------
spawn_id == "minecraft:entity_spawned"

spawn_needed == Len(_spawn_groups) > 0 \/ Len(_spawn_properties) > 0

spawn_events ==
    {i \in 1..Len(_events) : Event_get_id(_events[i]) = spawn_id}

\* the serialised spawn event of a returned document, << >> without one
doc_spawn(d) == IF DictHas(d.events, spawn_id) THEN DictGet(d.events, spawn_id)
                ELSE << >>

\* C29: get_json does not accumulate: after any number of calls there is
\* exactly one minecraft:entity_spawned event, present only when a spawn
\* group or spawn property exists, its add-list holds each spawn group
\* exactly once, and a repeated call returns the same spawn event as the
\* one before.
C29_SpawnEventStable ==
    JustReturned =>
        /\ Cardinality(spawn_events) = (IF spawn_needed THEN 1 ELSE 0)
        /\ DictHas(doc.events, spawn_id) = spawn_needed
        /\ \A i \in 1..Len(_spawn_groups) :
               Count(_spawn_groups[i], json_list(doc_spawn(doc), "add")) = 1
        /\ prev_doc.returned => doc_spawn(doc) = doc_spawn(prev_doc)

\* ---- C30: objects constructed with default arguments --------------------------------------
\* both objects of the class were constructed without a list argument
BothDefault(cls, i, j) ==
    ctor_args[cls][i] = NoArg /\ ctor_args[cls][j] = NoArg

C30_Step ==
    LET t == heap_op'.target
    IN heap_op'.count = heap_op.count + 1 =>
        /\ heap_op'.cls = "AnimationFile" =>
               \A j \in 1..Len(files) :
                   (j # t /\ BothDefault("AnimationFile", t, j)) =>
                       AnimationFile_get_json(files[j], heap')
                           = AnimationFile_get_json(files[j], heap)
        /\ heap_op'.cls = "AnimTimelineItem" =>
               \A j \in 1..Len(items) :
                   (j # t /\ BothDefault("AnimTimelineItem", t, j)) =>
                       AnimTimelineItem_get_json(items[j], heap')
                           = AnimTimelineItem_get_json(items[j], heap)

\* C30: two AnimationFile (or two AnimTimelineItem) objects constructed with
\* default arguments are independent: add_anim or add_anims (add_command or
\* add_commands) on one never changes what the other's get_json returns.
C30_DefaultObjectsIndependent == [][C30_Step]_vars
====
